---- MODULE Spec2Model ----
(***************************************************************************)
(* Model of gdpc/http_interface.py: the endpoint wrappers of HTTPInterface *)
(* and the retrying request helpers _get/_put/_post they go through.       *)
(*                                                                         *)
(* One call is in progress at a time (the module is synchronous).  A call  *)
(* builds its request, runs the request through the retry wrapper, and     *)
(* then decodes the response (or lets the exception propagate).            *)
(*                                                                         *)
(* Python values are written as pairs <<type, text>>, so that None, False, *)
(* an omitted argument and a string can be told apart.                     *)
(***************************************************************************)
EXTENDS Integers, Sequences, FiniteSets, TLC

VARIABLES
    pc,           \* "idle", "attempt", "onRetry", "return", "raise", "done"
    method,       \* the endpoint method being called
    args,         \* its arguments, as the caller gave them
    request,      \* the request handed to requests.get/put/post
    retriesLeft,  \* the wrapper's remaining retry budget
    attempts,     \* number of times the network operation was run
    events,       \* history of the wrapper: "fail", "other", "ok", "cb"
    cbArgs,       \* the retriesLeft values handed to the callback, in order
    slept,        \* seconds spent in time.sleep
    stderr,       \* lines printed with eprint
    response,     \* the response the operation returned
    exc,          \* the exception in flight / propagated ("" when none)
    jsonCalls,    \* number of response.json() calls made while decoding
    result        \* the value returned to the caller

vars == <<pc, method, args, request, retriesLeft, attempts, events, cbArgs,
          slept, stderr, response, exc, jsonCalls, result>>

-----------------------------------------------------------------------------
(* Bounds of the model *)

MaxRetries == 2
MaxLen == 3
MaxBlocks == 2

-----------------------------------------------------------------------------
(* Python values *)

None == <<"none", "">>
Unset == <<"unset", "">>
PyInt(i) == <<"int", ToString(i)>>
PyStr(s) == <<"str", s>>
PyBool(b) == <<"bool", IF b THEN "True" ELSE "False">>
PyTrue == PyBool(TRUE)
PyFalse == PyBool(FALSE)

\* The value of a parameter: the caller's argument, or the default of the
\* signature when the caller left it out.
Arg(given, default) == IF given = Unset THEN default ELSE given

\* Truthiness of a Python bool
Truthy(v) == v = PyTrue

\* dict.update: the entries of u replace those of d
Update(d, u) == u @@ d

Dimensions == {"overworld", "the_nether", "the_end"}
DimensionArgs == {Unset} \cup {PyStr(d) : d \in Dimensions}
OptIntArgs == {Unset, PyInt(2)}
BoolArgs == {Unset, PyTrue, PyFalse}
RetryArgs == 0..MaxRetries

-----------------------------------------------------------------------------
(* The requests library: params whose value is None are left out of the    *)
(* query string; every other value is sent as its str().                   *)

SentParams(params) ==
    [k \in {n \in DOMAIN params : params[n] # None} |-> params[k][2]]

NoParams == [k \in {} |-> None]
NoHeaders == [k \in {} |-> ""]
NoBody == <<>>

host == "http://localhost:9000"

Request(verb, path, params, headers, body) ==
    [verb |-> verb, url |-> <<host, path>>, query |-> SentParams(params),
     headers |-> headers, body |-> body]

\* Variant of _get that does not hand its retries argument on
_getDropsRetries(path, params, headers, retries) ==
    [req |-> Request("GET", path, params, headers, NoBody), retries |-> 0]

\* _get/_put/_post: the verb, and the retry budget handed to the wrapper
_get(path, params, headers, retries) ==
    [req |-> Request("GET", path, params, headers, NoBody), retries |-> retries]

_put(path, params, body, retries) ==
    [req |-> Request("PUT", path, params, NoHeaders, body), retries |-> retries]

_post(path, params, body, retries) ==
    [req |-> Request("POST", path, params, NoHeaders, body), retries |-> retries]

\* bytes(s, "utf-8") of a text made of ASCII characters
Utf8(s) == <<"bytes", s>>

-----------------------------------------------------------------------------
(* Texts are sequences of characters; "\n" is the newline character. *)

NL == "\n"

RECURSIVE SplitFrom(_, _, _, _)
SplitFrom(s, sep, i, cur) ==
    IF i > Len(s) THEN <<cur>>
    ELSE IF s[i] = sep THEN <<cur>> \o SplitFrom(s, sep, i + 1, <<>>)
    ELSE SplitFrom(s, sep, i + 1, Append(cur, s[i]))

\* str.split(sep): the pieces between the separators, empty pieces included
Split(s, sep) == SplitFrom(s, sep, 1, <<>>)

RECURSIVE Join(_, _)
Join(pieces, sep) ==
    IF Len(pieces) = 0 THEN <<>>
    ELSE IF Len(pieces) = 1 THEN pieces[1]
    ELSE pieces[1] \o <<sep>> \o Join(Tail(pieces), sep)

RECURSIVE TextsUpTo(_)
TextsUpTo(n) ==
    IF n = 0 THEN {<<>>}
    ELSE TextsUpTo(n - 1) \cup
         {Append(t, c) : t \in {u \in TextsUpTo(n - 1) : Len(u) = n - 1},
                         c \in {"b", NL}}

\* the block strings / command strings a caller passes
InputTexts == TextsUpTo(MaxLen) \ {<<>>}

-----------------------------------------------------------------------------
(* Responses.  A body is the text on the wire: Dumps(v) is the text that   *)
(* serialises the JSON value v, <<"plain", s>> a text that is not JSON.    *)
(* JSON values are <<"num", n>>, <<"obj", record>> or <<"list", seq>>.     *)

Dumps(v) == <<"json", v>>
Plain(s) == <<"plain", s>>
JSONDecodeError == <<"JSONDecodeError", "">>

Response(status, body) == [status |-> status, body |-> body]

\* response.ok
Ok(resp) == resp.status < 400
\* response.text
Text(resp) == resp.body
\* response.content
Content(resp) == <<"bytes", resp.body>>
\* response.json()
Json(resp) == IF resp.body[1] = "json" THEN resp.body[2] ELSE JSONDecodeError
\* value == n, for a parsed JSON value and a Python int
JsonEq(v, n) == v[1] = "num" /\ v[2] = n

\* What a method hands back: a value, or an exception raised while decoding
Decoded(value, raised, nJson, log) ==
    [value |-> value, exc |-> raised, jsonCalls |-> nJson, log |-> log]

-----------------------------------------------------------------------------
(* The endpoint methods: the request each one builds *)

Position == [x |-> 0, y |-> 64, z |-> 0]

\* Variant of getBlockCall that sends the two flags as they were given
getBlockCallFlagsAsGiven(a) ==
    _get("/blocks",
         ("x" :> PyInt(a.x)) @@ ("y" :> PyInt(a.y)) @@ ("z" :> PyInt(a.z)) @@
         ("dx" :> Arg(a.dx, None)) @@ ("dy" :> Arg(a.dy, None)) @@
         ("dz" :> Arg(a.dz, None)) @@
         ("includeState" :> Arg(a.includeState, PyFalse)) @@
         ("includeData" :> Arg(a.includeData, PyFalse)) @@
         ("dimension" :> Arg(a.dimension, None)),
         ("accept" :> "application/json"),
         a.retries)

\* Variant of getBlockCall with the two flags exchanged
getBlockCallFlagsSwapped(a) ==
    _get("/blocks",
         ("x" :> PyInt(a.x)) @@ ("y" :> PyInt(a.y)) @@ ("z" :> PyInt(a.z)) @@
         ("dx" :> Arg(a.dx, None)) @@ ("dy" :> Arg(a.dy, None)) @@
         ("dz" :> Arg(a.dz, None)) @@
         ("includeState" :>
             IF Truthy(Arg(a.includeData, PyFalse)) THEN PyTrue ELSE None) @@
         ("includeData" :>
             IF Truthy(Arg(a.includeState, PyFalse)) THEN PyTrue ELSE None) @@
         ("dimension" :> Arg(a.dimension, None)),
         ("accept" :> "application/json"),
         a.retries)

getBlockCall(a) ==
    _get("/blocks",
         ("x" :> PyInt(a.x)) @@ ("y" :> PyInt(a.y)) @@ ("z" :> PyInt(a.z)) @@
         ("dx" :> Arg(a.dx, None)) @@ ("dy" :> Arg(a.dy, None)) @@
         ("dz" :> Arg(a.dz, None)) @@
         ("includeState" :>
             IF Truthy(Arg(a.includeState, PyFalse)) THEN PyTrue ELSE None) @@
         ("includeData" :>
             IF Truthy(Arg(a.includeData, PyFalse)) THEN PyTrue ELSE None) @@
         ("dimension" :> Arg(a.dimension, None)),
         ("accept" :> "application/json"),
         a.retries)

placeBlockCall(a) ==
    LET customFlags == Arg(a.customFlags, PyStr(""))
        blockUpdateParams ==
            IF customFlags # PyStr("")
            THEN ("customFlags" :> customFlags)
            ELSE ("doBlockUpdates" :> Arg(a.doBlockUpdates, PyTrue)) @@
                 ("spawnDrops" :> Arg(a.spawnDrops, PyFalse))
        parameters ==
            ("x" :> PyInt(a.x)) @@ ("y" :> PyInt(a.y)) @@ ("z" :> PyInt(a.z))
    IN  _put("/blocks", Update(parameters, blockUpdateParams),
             Utf8(a.blockStr), a.retries)

runCommandCall(a) ==
    _post("/command", ("dimension" :> Arg(a.dimension, None)),
          Utf8(a.command), a.retries)

getBuildAreaCall(a) ==
    _get("/buildarea", NoParams, NoHeaders, a.retries)

getChunksCall(a) ==
    LET acceptType == IF Truthy(Arg(a.asBytes, PyFalse))
                      THEN "application/octet-stream" ELSE "text/plain"
    IN  _get("/chunks",
             ("x" :> PyInt(a.x)) @@ ("z" :> PyInt(a.z)) @@
             ("dx" :> Arg(a.dx, PyInt(1))) @@ ("dz" :> Arg(a.dz, PyInt(1))) @@
             ("dimension" :> Arg(a.dimension, None)),
             ("Accept" :> acceptType),
             a.retries)

getVersionCall(a) ==
    _get("/version", NoParams, NoHeaders, a.retries)

\* checkConnection: self.getVersion(retries=0)
checkConnectionArgs == [retries |-> 0]

\* Variant of checkConnectionCall that calls getVersion with its default retries
checkConnectionCallDefaultRetries == getVersionCall([retries |-> 5])

checkConnectionCall == getVersionCall(checkConnectionArgs)

-----------------------------------------------------------------------------
(* The server, as the docstrings of the endpoint methods describe it *)

\* a block descriptor: "state" and "data" are present when asked for
BlockKeys(query) ==
    {"x", "y", "z", "id"}
    \cup (IF "includeState" \in DOMAIN query /\ query["includeState"] = "True"
          THEN {"state"} ELSE {})
    \cup (IF "includeData" \in DOMAIN query /\ query["includeData"] = "True"
          THEN {"data"} ELSE {})

BlockDescriptor(query) == [k \in BlockKeys(query) |-> "value"]

\* one result per line of the body: "1" for a placement or command that
\* worked, "e" (an error message) for a line that cannot be read
LineResults(lines) ==
    [i \in 1..Len(lines) |-> IF lines[i] = <<>> THEN <<"e">> ELSE <<"1">>]

BuildAreas ==
    {[xFrom |-> 1, yFrom |-> 2, zFrom |-> 3, xTo |-> 4, yTo |-> 5, zTo |-> 6],
     [xFrom |-> -8, yFrom |-> 0, zFrom |-> 7, xTo |-> 9, yTo |-> 64, zTo |-> 10]}

Versions == {"1.19.2", "1.20.2", "1.16.5"}

SUPPORTED_MINECRAFT_VERSIONS == {"1.19.2", "1.20.2"}

ServerResponses(m, req) ==
    CASE m = "getBlock" ->
           {Response(200, Dumps(<<"list", [i \in 1..n |-> BlockDescriptor(req.query)]>>))
              : n \in 1..MaxBlocks}
           \cup {Response(400, Plain("bad request"))}
      [] m \in {"placeBlock", "runCommand"} ->
           LET results == Join(LineResults(Split(req.body[2], NL)), NL)
           IN  {Response(200, results), Response(200, Append(results, NL))}
      [] m = "getBuildArea" ->
           {Response(200, Dumps(<<"obj", area>>)) : area \in BuildAreas}
           \cup {Response(200, Dumps(<<"num", -1>>)),
                 Response(404, Dumps(<<"num", -1>>)),
                 Response(404, Plain("no build area"))}
      [] m = "getChunks" ->
           {Response(200, Plain("chunks")), Response(400, Plain("bad request")),
            Response(500, Plain("server error"))}
      [] m \in {"getVersion", "checkConnection"} ->
           {Response(200, Plain(v)) : v \in Versions}

-----------------------------------------------------------------------------
(* The endpoint methods: what each one makes of the response *)

getBlockReturn(a, resp) ==
    LET blocks == Json(resp)
    IN  IF blocks[1] = "JSONDecodeError"
        THEN Decoded(None, "JSONDecodeError", 1, <<>>)
        ELSE Decoded(blocks, "", 1, <<>>)

placeBlockReturn(a, resp) ==
    Decoded(Split(Text(resp), NL), "", 0, <<>>)

runCommandReturn(a, resp) ==
    Decoded(Split(Text(resp), NL), "", 0, <<>>)

\* Variant of getBuildAreaReturn that parses the body before it looks at
\* the status
getBuildAreaReturnJsonFirst(a, resp) ==
    LET first == Json(resp)
    IN  IF first[1] = "JSONDecodeError"
        THEN Decoded(None, "JSONDecodeError", 1, <<>>)
        ELSE IF JsonEq(first, -1) \/ ~Ok(resp)
        THEN Decoded(<<PyFalse, Text(resp)>>, "", 1, <<>>)
        ELSE IF first[1] # "obj"
        THEN Decoded(None, "TypeError", 2, <<>>)
        ELSE Decoded(<<PyTrue, <<first[2].xFrom, first[2].yFrom, first[2].zFrom,
                                 first[2].xTo, first[2].yTo, first[2].zTo>>>>,
                     "", 2, <<>>)

getBuildAreaReturn(a, resp) ==
    IF ~Ok(resp)
    THEN Decoded(<<PyFalse, Text(resp)>>, "", 0, <<>>)
    ELSE LET first == Json(resp)
         IN  IF first[1] = "JSONDecodeError"
             THEN Decoded(None, "JSONDecodeError", 1, <<>>)
             ELSE IF JsonEq(first, -1)
             THEN Decoded(<<PyFalse, Text(resp)>>, "", 1, <<>>)
             ELSE LET buildAreaJson == Json(resp)
                  IN  IF buildAreaJson[1] # "obj"
                      THEN Decoded(None, "TypeError", 2, <<>>)
                      ELSE LET x1 == buildAreaJson[2].xFrom
                               y1 == buildAreaJson[2].yFrom
                               z1 == buildAreaJson[2].zFrom
                               x2 == buildAreaJson[2].xTo
                               y2 == buildAreaJson[2].yTo
                               z2 == buildAreaJson[2].zTo
                           IN  Decoded(<<PyTrue, <<x1, y1, z1, x2, y2, z2>>>>,
                                       "", 2, <<>>)

\* Variant of getChunksReturn that returns the text whatever asBytes says
getChunksReturnAlwaysText(a, resp) ==
    Decoded(Text(resp), "", 0, IF resp.status >= 400 THEN <<"Error">> ELSE <<>>)

getChunksReturn(a, resp) ==
    Decoded(IF Truthy(Arg(a.asBytes, PyFalse)) THEN Content(resp) ELSE Text(resp),
            "", 0,
            IF resp.status >= 400 THEN <<"Error">> ELSE <<>>)

getVersionReturn(a, resp) ==
    Decoded(Text(resp), "", 0, <<>>)

checkConnectionReturn(a, resp) ==
    LET minecraftVersion == getVersionReturn(a, resp).value
    IN  Decoded(<<PyTrue, PyBool(minecraftVersion[2] \in SUPPORTED_MINECRAFT_VERSIONS)>>,
                "", 0, <<>>)

\* checkConnection's except clause: the exceptions it turns into a result
checkConnectionCatches(e) == e = "ConnectionError"

MethodReturn(m, a, resp) ==
    CASE m = "getBlock" -> getBlockReturn(a, resp)
      [] m = "placeBlock" -> placeBlockReturn(a, resp)
      [] m = "runCommand" -> runCommandReturn(a, resp)
      [] m = "getBuildArea" -> getBuildAreaReturn(a, resp)
      [] m = "getChunks" -> getChunksReturn(a, resp)
      [] m = "getVersion" -> getVersionReturn(a, resp)
      [] m = "checkConnection" -> checkConnectionReturn(a, resp)

-----------------------------------------------------------------------------
(* The retry wrapper (utility.withRetries) and its callback *)

\* what requests.get/put/post can raise
Exceptions == {"ConnectionError", "ReadTimeout"}

\* Variant of Retryable that retries every failure
RetryableAny(e) == TRUE

\* the failures the wrapper retries
Retryable(e) == e = "ConnectionError"

\* the retry budget after one retry was spent
RetriesAfter(n) == n - 1

\* _onRequestRetry: time.sleep(3)
RetryPause == 3

-----------------------------------------------------------------------------
(* State machine *)

Init ==
    /\ pc = "idle"
    /\ method = ""
    /\ args = <<>>
    /\ request = <<>>
    /\ retriesLeft = 0
    /\ attempts = 0
    /\ events = <<>>
    /\ cbArgs = <<>>
    /\ slept = 0
    /\ stderr = <<>>
    /\ response = <<>>
    /\ exc = ""
    /\ jsonCalls = 0
    /\ result = None

\* A method builds its request and enters the wrapper
Begin(m, a, call) ==
    /\ pc = "idle"
    /\ pc' = "attempt"
    /\ method' = m
    /\ args' = a
    /\ request' = call.req
    /\ retriesLeft' = call.retries
    /\ UNCHANGED <<attempts, events, cbArgs, slept, stderr, response, exc,
                   jsonCalls, result>>

getBlock ==
    /\ method = ""
    /\ \E dx \in OptIntArgs, dy \in OptIntArgs, dz \in OptIntArgs,
           dimension \in DimensionArgs, includeState \in BoolArgs,
           includeData \in BoolArgs, retries \in RetryArgs :
            LET a == [x |-> Position.x, y |-> Position.y, z |-> Position.z,
                      dx |-> dx, dy |-> dy, dz |-> dz, dimension |-> dimension,
                      includeState |-> includeState, includeData |-> includeData,
                      retries |-> retries]
            IN  Begin("getBlock", a, getBlockCall(a))

BlockUpdateArgs ==
    {[customFlags |-> Unset, doBlockUpdates |-> Unset, spawnDrops |-> Unset],
     [customFlags |-> Unset, doBlockUpdates |-> PyFalse, spawnDrops |-> PyTrue],
     [customFlags |-> PyStr("0100011"), doBlockUpdates |-> Unset, spawnDrops |-> Unset]}

placeBlock ==
    /\ method = ""
    /\ \E blockStr \in InputTexts, dimension \in DimensionArgs,
           flags \in BlockUpdateArgs, retries \in RetryArgs :
            LET a == [x |-> Position.x, y |-> Position.y, z |-> Position.z,
                      blockStr |-> blockStr, dimension |-> dimension,
                      doBlockUpdates |-> flags.doBlockUpdates,
                      spawnDrops |-> flags.spawnDrops,
                      customFlags |-> flags.customFlags, retries |-> retries]
            IN  Begin("placeBlock", a, placeBlockCall(a))

runCommand ==
    /\ method = ""
    /\ \E command \in InputTexts, dimension \in DimensionArgs, retries \in RetryArgs :
            LET a == [command |-> command, dimension |-> dimension, retries |-> retries]
            IN  Begin("runCommand", a, runCommandCall(a))

getBuildArea ==
    /\ method = ""
    /\ \E retries \in RetryArgs :
            LET a == [retries |-> retries]
            IN  Begin("getBuildArea", a, getBuildAreaCall(a))

getChunks ==
    /\ method = ""
    /\ \E dx \in OptIntArgs, dz \in OptIntArgs, dimension \in DimensionArgs,
           asBytes \in BoolArgs, retries \in RetryArgs :
            LET a == [x |-> Position.x, z |-> Position.z, dx |-> dx, dz |-> dz,
                      dimension |-> dimension, asBytes |-> asBytes, retries |-> retries]
            IN  Begin("getChunks", a, getChunksCall(a))

getVersion ==
    /\ method = ""
    /\ \E retries \in RetryArgs :
            LET a == [retries |-> retries]
            IN  Begin("getVersion", a, getVersionCall(a))

checkConnection ==
    /\ method = ""
    /\ Begin("checkConnection", checkConnectionArgs, checkConnectionCall)

\* The wrapper runs the operation and the server answers: the wrapper
\* returns the response to the method.
RequestSucceeds ==
    /\ pc = "attempt"
    /\ \E resp \in ServerResponses(method, request) : response' = resp
    /\ attempts' = attempts + 1
    /\ events' = Append(events, "ok")
    /\ pc' = "return"
    /\ UNCHANGED <<method, args, request, retriesLeft, cbArgs, slept, stderr,
                   exc, jsonCalls, result>>

\* The wrapper runs the operation and it raises e: a failure the wrapper
\* retries goes to the callback while the budget lasts, anything else
\* leaves the wrapper.
RequestRaises(e) ==
    /\ pc = "attempt"
    /\ attempts' = attempts + 1
    /\ events' = Append(events, e)
    /\ exc' = e
    /\ pc' = IF Retryable(e) /\ retriesLeft > 0 THEN "onRetry" ELSE "raise"
    /\ UNCHANGED <<method, args, request, retriesLeft, cbArgs, slept, stderr,
                   response, jsonCalls, result>>

\* Variant of _onRequestRetry without the pause
_onRequestRetryNoPause ==
    /\ pc = "onRetry"
    /\ cbArgs' = Append(cbArgs, retriesLeft)
    /\ events' = Append(events, "cb")
    /\ stderr' = Append(stderr, "HTTP request failed!")
    /\ retriesLeft' = RetriesAfter(retriesLeft)
    /\ exc' = ""
    /\ pc' = "attempt"
    /\ UNCHANGED <<method, args, request, attempts, slept, response, jsonCalls,
                   result>>

\* The callback is handed the wrapper's remaining retry count, prints its
\* warning and sleeps; the wrapper then goes round its loop with one retry
\* less.
_onRequestRetry ==
    /\ pc = "onRetry"
    /\ cbArgs' = Append(cbArgs, retriesLeft)
    /\ events' = Append(events, "cb")
    /\ stderr' = Append(stderr, "HTTP request failed!")
    /\ slept' = slept + RetryPause
    /\ retriesLeft' = RetriesAfter(retriesLeft)
    /\ exc' = ""
    /\ pc' = "attempt"
    /\ UNCHANGED <<method, args, request, attempts, response, jsonCalls, result>>

\* The method decodes the response and returns (or raises while decoding)
Return ==
    /\ pc = "return"
    /\ LET d == MethodReturn(method, args, response)
       IN  /\ result' = d.value
           /\ exc' = d.exc
           /\ jsonCalls' = d.jsonCalls
           /\ stderr' = stderr \o d.log
    /\ pc' = "done"
    /\ UNCHANGED <<method, args, request, retriesLeft, attempts, events, cbArgs,
                   slept, response>>

\* The exception leaves the wrapper: checkConnection turns the ones it
\* catches into a result, every other method lets it propagate.
Raise ==
    /\ pc = "raise"
    /\ IF method = "checkConnection" /\ checkConnectionCatches(exc)
       THEN result' = <<PyFalse, None>> /\ exc' = ""
       ELSE UNCHANGED <<result, exc>>
    /\ pc' = "done"
    /\ UNCHANGED <<method, args, request, retriesLeft, attempts, events, cbArgs,
                   slept, stderr, response, jsonCalls>>

Next ==
    \/ getBlock
    \/ placeBlock
    \/ runCommand
    \/ getBuildArea
    \/ getChunks
    \/ getVersion
    \/ checkConnection
    \/ RequestSucceeds
    \/ \E e \in Exceptions : RequestRaises(e)
    \/ _onRequestRetry
    \/ Return
    \/ Raise

Spec == Init /\ [][Next]_vars

-----------------------------------------------------------------------------
(* Properties *)

Last(seq) == seq[Len(seq)]

RECURSIVE Count(_, _)
Count(seq, x) ==
    IF seq = <<>> THEN 0
    ELSE (IF Head(seq) = x THEN 1 ELSE 0) + Count(Tail(seq), x)

\* the wrapper has run the operation and the operation's last run ended so
WrapperEndedWith(outcome) == events # <<>> /\ Last(events) = outcome

\* the method returned, after the server answered
Returned(m) ==
    method = m /\ pc = "done" /\ exc = "" /\ WrapperEndedWith("ok")

\* C1: with retries = N and an operation that raises a connection failure
\* on every attempt, the failure leaves the wrapper only after exactly N+1
\* attempts and exactly N callback invocations.
C1_ExhaustedRetries ==
    (pc \in {"raise", "done"} /\ WrapperEndedWith("ConnectionError")) =>
        /\ attempts = args.retries + 1
        /\ Count(events, "ConnectionError") = args.retries + 1
        /\ Len(cbArgs) = args.retries
        /\ Count(events, "cb") = args.retries

C1_Witness ==
    /\ pc = "done"
    /\ exc = "ConnectionError"
    /\ args.retries >= 2
    /\ attempts = args.retries + 1
    /\ Len(cbArgs) = args.retries

\* C2: a failure that is not a connection failure is never retried: it is
\* the wrapper's last event and leaves the wrapper at once; raised by the
\* first attempt, it surfaces after one attempt, no callback and no pause.
C2_OtherFailureNotRetried ==
    \A i \in DOMAIN events :
        events[i] \notin {"ok", "cb", "ConnectionError"} =>
            /\ i = Len(events)
            /\ pc \in {"raise", "done"}
            /\ exc = events[i]
            /\ (i = 1 => attempts = 1 /\ cbArgs = <<>> /\ slept = 0)

C2_Witness ==
    /\ pc = "done"
    /\ method = "getBlock"
    /\ args.retries >= 2
    /\ exc = "ReadTimeout"
    /\ attempts = 1
    /\ cbArgs = <<>>

\* C3 as stated: checkConnection has exactly three outcomes, (False, None),
\* (True, True) and (True, False), after one attempt and no callback.
C3_ExactlyThreeOutcomes ==
    (method = "checkConnection" /\ pc = "done") =>
        /\ attempts = 1
        /\ cbArgs = <<>>
        /\ exc = ""
        /\ result \in {<<PyFalse, None>>, <<PyTrue, PyTrue>>, <<PyTrue, PyFalse>>}

\* C3 as amended: checkConnection makes one attempt and no callback; a
\* connection failure gives (False, None), an answer gives (True, whether
\* the version is supported), and any other failure of the request
\* propagates to the caller.
C3_Outcomes ==
    (method = "checkConnection" /\ pc = "done") =>
        /\ attempts = 1
        /\ cbArgs = <<>>
        /\ slept = 0
        /\ CASE Last(events) = "ConnectionError" ->
                    exc = "" /\ result = <<PyFalse, None>>
             [] Last(events) = "ok" ->
                    /\ exc = ""
                    /\ result = <<PyTrue,
                                  PyBool(response.body[2] \in SUPPORTED_MINECRAFT_VERSIONS)>>
             [] OTHER -> exc = Last(events) /\ result = None

C3_Witness ==
    /\ method = "checkConnection"
    /\ pc = "done"
    /\ exc = "ReadTimeout"
    /\ attempts = 1

\* C4: getBuildArea returns (False, response text) on a non-success status
\* (without parsing the body) or a JSON payload of -1, and otherwise
\* (True, (xFrom, yFrom, zFrom, xTo, yTo, zTo)) from the response JSON.
C4_BuildArea ==
    (method = "getBuildArea" /\ pc = "done" /\ WrapperEndedWith("ok")) =>
        /\ exc = ""
        /\ IF ~Ok(response)
           THEN /\ result[1] = PyFalse
                /\ result[2] = response.body
                /\ jsonCalls = 0
           ELSE IF response.body[2][1] = "num" /\ response.body[2][2] = -1
           THEN /\ result[1] = PyFalse
                /\ result[2] = response.body
           ELSE /\ result[1] = PyTrue
                /\ LET o == response.body[2][2]
                   IN  result[2] = <<o.xFrom, o.yFrom, o.zFrom, o.xTo, o.yTo, o.zTo>>

C4_Witness ==
    /\ Returned("getBuildArea")
    /\ ~Ok(response)
    /\ response.body[1] = "plain"
    /\ result[1] = PyFalse
    /\ jsonCalls = 0

\* C5: getBlock, placeBlock, runCommand and getChunks send a dimension the
\* caller gave as the query parameter 'dimension', and send no 'dimension'
\* when the caller gave none.
C5_DimensionSent ==
    (method \in {"getBlock", "placeBlock", "runCommand", "getChunks"}) =>
        IF args.dimension = Unset
        THEN "dimension" \notin DOMAIN request.query
        ELSE /\ "dimension" \in DOMAIN request.query
             /\ request.query["dimension"] = args.dimension[2]

\* the optional parameters of a method whose default is "no value"
OptionalParams(m) ==
    CASE m = "getBlock" -> {"dx", "dy", "dz", "dimension"}
      [] m = "getChunks" -> {"dimension"}
      [] m \in {"placeBlock", "runCommand"} -> {"dimension"}
      [] OTHER -> {}

\* the parameters of a method that have a default
DefaultedParams(m) ==
    CASE m = "getChunks" -> {"dx", "dz", "dimension"}
      [] OTHER -> OptionalParams(m)

FlagOff(v) == v \in {Unset, PyFalse}

\* C6 as stated: for every method, a parameter among dx, dy, dz, dimension
\* that the caller left unset, and a getBlock flag that is False, is not in
\* the query of the request.
C6_UnsetOmitted ==
    (pc # "idle") =>
        /\ \A k \in DefaultedParams(method) :
               args[k] = Unset => k \notin DOMAIN request.query
        /\ method = "getBlock" =>
               /\ FlagOff(args.includeState) => "includeState" \notin DOMAIN request.query
               /\ FlagOff(args.includeData) => "includeData" \notin DOMAIN request.query

\* C6 as amended: the same for the parameters whose default is None (dx,
\* dy, dz of getBlock, every dimension) and the getBlock flags; getChunks
\* sends dx and dz, left unset, with their default 1.
C6_NoneOmitted ==
    (pc # "idle") =>
        /\ \A k \in OptionalParams(method) :
               args[k] = Unset => k \notin DOMAIN request.query
        /\ method = "getBlock" =>
               /\ FlagOff(args.includeState) => "includeState" \notin DOMAIN request.query
               /\ FlagOff(args.includeData) => "includeData" \notin DOMAIN request.query
        /\ method = "getChunks" =>
               \A k \in {"dx", "dz"} :
                   /\ k \in DOMAIN request.query
                   /\ request.query[k] = IF args[k] = Unset THEN "1" ELSE args[k][2]
        /\ \A k \in DOMAIN request.query : request.query[k] \notin {"", "None", "False"}
               \/ (method = "placeBlock" /\ k \in {"doBlockUpdates", "spawnDrops"})

C6_Witness ==
    /\ method = "getChunks"
    /\ pc = "done"
    /\ args.dx = Unset /\ args.dz # Unset /\ args.dimension = Unset
    /\ DOMAIN request.query = {"x", "z", "dx", "dz"}
    /\ request.query["dx"] = "1"

\* C7: placeBlock and runCommand return as many strings as their input has
\* newline-separated lines, whether or not the response body ends with a
\* newline.
C7_OneResultPerLine ==
    (Returned("placeBlock") \/ Returned("runCommand")) =>
        Len(result) = Len(Split(request.body[2], NL))

\* C8: every block descriptor getBlock returns has a "state" key exactly
\* when includeState is True and a "data" key exactly when includeData is.
C8_StateAndDataKeys ==
    Returned("getBlock") =>
        \A i \in 1..Len(result[2]) :
            /\ ("state" \in DOMAIN result[2][i]) <=> (args.includeState = PyTrue)
            /\ ("data" \in DOMAIN result[2][i]) <=> (args.includeData = PyTrue)

C8_Witness ==
    /\ Returned("getBlock")
    /\ args.includeState = PyTrue
    /\ args.includeData = PyFalse
    /\ Len(result[2]) = 2
    /\ "state" \in DOMAIN result[2][2]
    /\ "data" \notin DOMAIN result[2][2]

\* C9: getChunks asks for application/octet-stream exactly when asBytes is
\* True and for text/plain otherwise; whatever the status of the response,
\* it returns the body (bytes when asBytes, text otherwise) and raises
\* nothing; a status >= 400 adds one line to standard error.
C9_Chunks ==
    (method = "getChunks") =>
        /\ request.headers["Accept"] =
               IF args.asBytes = PyTrue THEN "application/octet-stream" ELSE "text/plain"
        /\ (pc = "done" /\ WrapperEndedWith("ok")) =>
               /\ exc = ""
               /\ result = IF args.asBytes = PyTrue
                           THEN <<"bytes", response.body>> ELSE response.body
               /\ Count(stderr, "Error") = IF response.status >= 400 THEN 1 ELSE 0
               /\ Len(stderr) = Len(cbArgs) + Count(stderr, "Error")

C9_Witness ==
    /\ Returned("getChunks")
    /\ response.status >= 400
    /\ args.asBytes = PyTrue
    /\ result = <<"bytes", response.body>>
    /\ Count(stderr, "Error") = 1

\* C10: when the operation fails f <= N times with a connection failure
\* and then succeeds, the wrapper returns after f+1 attempts and f
\* callbacks; failed attempt and callback (3 seconds each) alternate, the
\* retry count handed to the callback goes down by one each time, and
\* nothing follows the success.
C10_RetryThenSuccess ==
    WrapperEndedWith("ok") =>
        LET f == Count(events, "ConnectionError")
        IN  /\ f <= args.retries
            /\ Len(events) = 2 * f + 1
            /\ \A i \in 1..f : events[2 * i - 1] = "ConnectionError" /\ events[2 * i] = "cb"
            /\ attempts = f + 1
            /\ Len(cbArgs) = f
            /\ slept = 3 * f
            /\ \A i \in 1..(f - 1) : cbArgs[i + 1] = cbArgs[i] - 1
            /\ pc \in {"return", "done"}

C10_Witness ==
    /\ pc = "done"
    /\ exc = ""
    /\ events = <<"ConnectionError", "cb", "ConnectionError", "cb", "ok">>
    /\ attempts = 3
    /\ slept = 6
    /\ cbArgs[2] = cbArgs[1] - 1

====
